---------------------------- MODULE Spec2Model ----------------------------
(***************************************************************************)
(* AgroVista backend: the /ask handler, its rate limiter, the loader that  *)
(* resolves the forecast tables (load_all_sheets) and the Redis cache in    *)
(* front of it.  Strings are sequences of one-character strings, so that    *)
(* lower(), endswith() and replace() are computed as Python computes them.  *)
(***************************************************************************)
EXTENDS Integers, Sequences, FiniteSets, TLC

VARIABLES
    ADMIN_API_KEY,   \* app.py:27   "" when the variable is unset
    GENAI_API_KEY,   \* app.py:23   TRUE when a key is set
    redis_client,    \* app.py:49-58  TRUE when a client object exists
    engine,          \* app.py:39-43  TRUE when create_engine returned an engine
    autorollback,    \* the driver rolls a failed statement back on its own
    RATE_LIMIT,      \* app.py:188
    clock,           \* time(), in seconds
    db_up,           \* the store accepts connections
    redis_up,        \* the cache backend answers (otherwise every call raises)
    genai_up,        \* the text-generation service answers
    tables,          \* the store: physical table name -> its rows
    cache,           \* the Redis entry under the fixed key
    rate_store,      \* app.py:189  the counters of the tracked addresses
    otherKeys,       \* number of keys of rate_store held by other addresses
    reached,         \* per key: the calls of check_rate_limit made for it
    req,             \* what the last call did and returned
    arg,             \* the logical name given to the candidate generation
    cands,           \* app.py:156-165 result
    cands_sl         \* utils/sheet_loader.py:55-61 result

cfgVars  == <<ADMIN_API_KEY, GENAI_API_KEY, redis_client, engine, autorollback,
             RATE_LIMIT>>
envVars  == <<db_up, redis_up, genai_up>>
rateVars == <<rate_store, otherKeys, reached>>
candVars == <<arg, cands, cands_sl>>
vars == <<ADMIN_API_KEY, GENAI_API_KEY, redis_client, engine, autorollback,
          RATE_LIMIT, clock,
          db_up, redis_up, genai_up, tables, cache, rate_store, otherKeys,
          reached, req, arg, cands, cands_sl>>

----------------------------------------------------------------------------
(* Strings *)

EmptyStr == <<>>

SUFFIX == <<"_", "f", "o", "r", "e", "c", "a", "s", "t">>

SuffixCap == <<"_", "F", "o", "r", "e", "c", "a", "s", "t">>

\* str.lower() on one character of the alphabet used here
LowerChar(c) ==
    CASE c = "A" -> "a"
      [] c = "B" -> "b"
      [] c = "F" -> "f"
      [] OTHER   -> c

Lower(s) == [i \in 1..Len(s) |-> LowerChar(s[i])]

EndsWith(s, suf) ==
    /\ Len(s) >= Len(suf)
    /\ SubSeq(s, Len(s) - Len(suf) + 1, Len(s)) = suf

StartsWith(s, pre) ==
    /\ Len(s) >= Len(pre)
    /\ SubSeq(s, 1, Len(pre)) = pre

\* str.replace(old, new): every non-overlapping occurrence, left to right
RECURSIVE Replace(_, _, _)
Replace(s, old, new) ==
    IF Len(s) < Len(old) THEN s
    ELSE IF StartsWith(s, old)
         THEN new \o Replace(SubSeq(s, Len(old) + 1, Len(s)), old, new)
         ELSE <<Head(s)>> \o Replace(Tail(s), old, new)

\* [c for c in l if c]  /  filter(None, l)
RECURSIVE NonEmpty(_)
NonEmpty(l) ==
    IF l = <<>> THEN <<>>
    ELSE IF Head(l) = EmptyStr THEN NonEmpty(Tail(l))
         ELSE <<Head(l)>> \o NonEmpty(Tail(l))

Range(l) == {l[i] : i \in 1..Len(l)}

\* list(dict.fromkeys(l)): first occurrences, in order
RECURSIVE DictFromKeys(_, _)
DictFromKeys(l, seen) ==
    IF l = <<>> THEN <<>>
    ELSE IF Head(l) \in seen THEN DictFromKeys(Tail(l), seen)
         ELSE <<Head(l)>> \o DictFromKeys(Tail(l), seen \cup {Head(l)})

----------------------------------------------------------------------------
(* Candidate table names *)

\* app.py:156-165
cand_list(s) ==
    LET c1 == <<s>>
        c2 == <<Lower(s)>>
        c3 == IF EndsWith(Lower(s), SUFFIX)
              THEN <<Replace(Lower(s), SUFFIX, EmptyStr)>> ELSE <<>>
        c4 == IF EndsWith(s, SUFFIX)
              THEN <<Replace(s, SUFFIX, EmptyStr)>> ELSE <<>>
        c5 == <<Lower(Replace(s, <<" ">>, <<"_">>))>>
    IN  DictFromKeys(NonEmpty(c1 \o c2 \o c3 \o c4 \o c5), {})

\* utils/sheet_loader.py:55-61: None stands for a variant that is not generated,
\* and filter(None, ...) drops it together with the empty strings
cand_list_sl(s) ==
    LET None == EmptyStr
        l == << s,
                Lower(s),
                IF EndsWith(Lower(s), SUFFIX)
                    THEN Replace(Lower(s), SUFFIX, EmptyStr) ELSE None,
                IF EndsWith(s, SUFFIX)
                    THEN Replace(s, SUFFIX, EmptyStr) ELSE None,
                Lower(Replace(s, <<" ">>, <<"_">>)) >>
    IN  DictFromKeys(NonEmpty(l), {})

(* Logical names given to the candidate generation: concatenations of at    *)
(* most MaxParts of these pieces.                                          *)
MaxParts == 3

Pieces == { <<"A">>, <<"b">>, <<" ">>, SUFFIX, SuffixCap }

RECURSIVE Concats(_)
Concats(n) ==
    IF n = 0 THEN { EmptyStr }
    ELSE Concats(n - 1) \cup { p \o t : p \in Pieces, t \in Concats(n - 1) }

Names == Concats(MaxParts) \ { EmptyStr }


----------------------------------------------------------------------------
(* Tables.  A cell is a typed value; a store table is a sequence of cells   *)
(* (one data column); a DataFrame is a sequence of rows, each carrying the  *)
(* cell and the Source_Sheet tag.  pd.DataFrame() is the empty sequence.    *)

IntCell(n)      == [t |-> "int",   n |-> n,  e |-> 0, s |-> ""]

\* the number m * 10^-e, with e > 0 and m not a multiple of 10
FloatCell(m, e) == [t |-> "float", n |-> m,  e |-> e, s |-> ""]

StrCell(x)      == [t |-> "str",   n |-> 0,  e |-> 0, s |-> x]

\* a timestamp, ms milliseconds after the epoch
DateCell(ms)    == [t |-> "date",  n |-> ms, e |-> 0, s |-> ""]

EmptyFrame == <<>>

\* Tag with the lower-cased name in place of the display name
Tag_Lower(rows, s) ==
    [i \in 1..Len(rows) |-> [val |-> rows[i], Source_Sheet |-> Lower(s)]]

\* df["Source_Sheet"] = s   (app.py:173)
Tag(rows, s) == [i \in 1..Len(rows) |-> [val |-> rows[i], Source_Sheet |-> s]]

\* pd.concat(dfs, ignore_index=True)   (app.py:180)
RECURSIVE Concat(_)
Concat(dfs) == IF dfs = <<>> THEN EmptyFrame ELSE Head(dfs) \o Concat(Tail(dfs))

Min(a, b) == IF a <= b THEN a ELSE b

\* LIMIT 10000   (app.py:139)
ROW_LIMIT == 10000

----------------------------------------------------------------------------
(* Reading the store *)

Query(quoted, ident) == [quoted |-> quoted, ident |-> ident]

\* app.py:137-143: the three SELECT forms for one candidate
try_variants(candidate) ==
    << Query(TRUE, candidate),
       Query(TRUE, Lower(candidate)),
       Query(FALSE, Lower(candidate)) >>

ReadError == [ok |-> FALSE, rows |-> <<>>]

(* pd.read_sql(text(q), conn) at app.py:147.  A quoted identifier names the  *)
(* table exactly; an unquoted one is folded to lower case by the store and  *)
(* is a syntax error when it is not one word.  A table that does not exist  *)
(* raises; one that exists yields its first ROW_LIMIT rows.  aborted: an    *)
(* earlier statement failed on this connection and its transaction was not  *)
(* rolled back, so the store refuses every further statement.               *)
read_sql(tabs, q, aborted) ==
    LET target == IF q.quoted THEN q.ident ELSE Lower(q.ident)
        oneWord == \A i \in 1..Len(q.ident) : q.ident[i] # " "
    IN  IF ~aborted /\ (q.quoted \/ oneWord) /\ target \in DOMAIN tabs
        THEN [ok |-> TRUE,
              rows |-> SubSeq(tabs[target], 1, Min(Len(tabs[target]), ROW_LIMIT))]
        ELSE ReadError

(* The connection after a statement failed.  The code shares one connection *)
(* for all reads (app.py:153) and never rolls back; whether the driver does *)
(* depends on the build: SQLAlchemy 1.x rolls a failed statement back       *)
(* (autorollback), SQLAlchemy 2.x leaves the transaction it began aborted.  *)
AfterFailure(aborted) == aborted \/ ~autorollback

Attempt(q, ok) == [q |-> q, ok |-> ok]

NotFound(tried, aborted) ==
    [found |-> FALSE, rows |-> <<>>, tried |-> tried, aborted |-> aborted]

\* TryQueries with a read of zero rows taken for a failed one
RECURSIVE TryQueries_SkipEmpty(_, _, _)
TryQueries_SkipEmpty(tabs, qs, aborted) ==
    IF qs = <<>> THEN NotFound(<<>>, aborted)
    ELSE LET r == read_sql(tabs, Head(qs), aborted)
         IN  IF r.ok /\ r.rows # <<>>
             THEN [found |-> TRUE, rows |-> r.rows,
                   tried |-> << Attempt(Head(qs), TRUE) >>, aborted |-> aborted]
             ELSE LET rest == TryQueries_SkipEmpty(tabs, Tail(qs), AfterFailure(aborted))
                  IN  [rest EXCEPT !.tried = << Attempt(Head(qs), FALSE) >> \o @]

\* app.py:145-151: the loop of safe_select over the query forms
RECURSIVE TryQueries(_, _, _)
TryQueries(tabs, qs, aborted) ==
    IF qs = <<>> THEN NotFound(<<>>, aborted)
    ELSE LET r == read_sql(tabs, Head(qs), aborted)
         IN  IF r.ok
             THEN [found |-> TRUE, rows |-> r.rows,
                   tried |-> << Attempt(Head(qs), TRUE) >>, aborted |-> aborted]
             ELSE LET rest == TryQueries(tabs, Tail(qs), AfterFailure(aborted))
                  IN  [rest EXCEPT !.tried = << Attempt(Head(qs), FALSE) >> \o @]

\* app.py:129-151
safe_select(tabs, candidate, aborted) ==
    TryQueries(tabs, try_variants(candidate), aborted)

\* app.py:167-176: the loop over the candidates of one sheet, until one is found
RECURSIVE TryCands(_, _, _)
TryCands(tabs, cl, aborted) ==
    IF cl = <<>> THEN NotFound(<<>>, aborted)
    ELSE LET r == safe_select(tabs, Head(cl), aborted)
         IN  IF r.found THEN r
             ELSE LET rest == TryCands(tabs, Tail(cl), r.aborted)
                  IN  [rest EXCEPT !.tried = r.tried \o @]

\* app.py:75-90.  Three names stand for the three shapes of the fourteen
\* configured ones: all lower case, mixed case with "_forecast", and mixed
\* case with "_Forecast".
sheet_names ==
    << <<"b">> \o SUFFIX,
       <<"A">> \o SUFFIX,
       <<"A", "b">> \o SuffixCap >>

\* app.py:154-178: the loop over the sheets from the i-th on, on one connection
RECURSIVE ResolveFrom(_, _, _, _)
ResolveFrom(tabs, cls, i, aborted) ==
    IF i > Len(cls) THEN <<>>
    ELSE LET r == TryCands(tabs, cls[i], aborted)
         IN  <<r>> \o ResolveFrom(tabs, cls, i + 1, r.aborted)

\* the DataFrames appended to dfs, in order   (app.py:171-176)
RECURSIVE FoundFrames(_, _)
FoundFrames(res, i) ==
    IF i > Len(res) THEN <<>>
    ELSE (IF res[i].found THEN << Tag(res[i].rows, sheet_names[i]) >> ELSE <<>>)
         \o FoundFrames(res, i + 1)

\* the candidate lists of the sheets, as app.py:156-165 builds them
AppCands == [i \in 1..Len(sheet_names) |-> cand_list(sheet_names[i])]

\* the same, as utils/sheet_loader.py:55-61 builds them
LoaderCands == [i \in 1..Len(sheet_names) |-> cand_list_sl(sheet_names[i])]

\* app.py:153-180
BuildFromStore(tabs, cls) ==
    LET res == ResolveFrom(tabs, cls, 1, FALSE)
    IN  [df       |-> Concat(FoundFrames(res, 1)),
         attempts |-> [i \in 1..Len(res) |-> res[i].tried],
         resolved |-> [i \in 1..Len(res) |-> res[i].found],
         counts   |-> [i \in 1..Len(res) |-> Len(res[i].rows)]]

----------------------------------------------------------------------------
(* Serialization: df.to_json(orient="split") and pd.read_json(.., "split") *)

JNum(m, e) == [j |-> "num", n |-> m, e |-> e, s |-> ""]

JStr(x)    == [j |-> "str", n |-> 0, e |-> 0, s |-> x]

RECURSIVE Pow10(_)
Pow10(k) == IF k = 0 THEN 1 ELSE 10 * Pow10(k - 1)

\* a decimal m * 10^-e printed without trailing zeros
RECURSIVE Norm(_, _)
Norm(m, e) == IF e > 0 /\ m % 10 = 0 THEN Norm(m \div 10, e - 1) ELSE JNum(m, e)

\* to_json's default double_precision   (app.py:182)
DOUBLE_PRECISION == 10

\* a float is written with at most DOUBLE_PRECISION decimals, rounded
RoundFloat(m, e) ==
    IF e <= DOUBLE_PRECISION THEN Norm(m, e)
    ELSE LET k == e - DOUBLE_PRECISION
         IN  Norm((m + 5 * Pow10(k - 1)) \div Pow10(k), DOUBLE_PRECISION)

\* one cell as to_json writes it: numbers as numbers, text quoted, timestamps
\* as epoch milliseconds (date_format="epoch", the default for orient="split")
CellToJson(c) ==
    CASE c.t = "int"   -> JNum(c.n, 0)
      [] c.t = "float" -> RoundFloat(c.n, c.e)
      [] c.t = "date"  -> JNum(c.n, 0)
      [] OTHER         -> JStr(c.s)

\* df_all.to_json(orient="split")   (app.py:182)
to_json(df) ==
    [i \in 1..Len(df) |->
        [val |-> CellToJson(df[i].val), Source_Sheet |-> df[i].Source_Sheet]]

\* text that float() accepts
NumericText == { "7" }

NumberOf(x) == IF x = "7" THEN 7 ELSE 0

JsonIsNumeric(v) == v.j = "num" \/ v.s \in NumericText

NumCell(m, e) == IF e = 0 THEN IntCell(m) ELSE FloatCell(m, e)

(* pd.read_json(cached, orient="split")   (app.py:118), with its defaults:  *)
(* dtype=True converts a column whose every value float() accepts to        *)
(* numbers, text included; convert_dates only touches columns with a        *)
(* date-like name, which the data column is not, so epoch milliseconds stay *)
(* integers.                                                                *)
read_json(body) ==
    LET numeric == \A i \in 1..Len(body) : JsonIsNumeric(body[i].val)
        cell(v) == IF v.j = "num" THEN NumCell(v.n, v.e)
                   ELSE IF numeric THEN IntCell(NumberOf(v.s))
                   ELSE StrCell(v.s)
    IN  [i \in 1..Len(body) |->
            [val |-> cell(body[i].val), Source_Sheet |-> body[i].Source_Sheet]]

----------------------------------------------------------------------------
(* The cache   (app.py:93-106, utils/cache.py:17-30) *)

\* expire=300   (app.py:101)
CACHE_EXPIRE == 300

\* kind: "none" no entry, "json" a serialized table, "garbage" text that is
\* not one, "empty" the empty string.  src is the table that was serialized
\* and at the time it was written.
NoEntry ==
    [kind |-> "none", body |-> <<>>, expires |-> 0, src |-> EmptyFrame, at |-> 0]

Garbage(exp) ==
    [kind |-> "garbage", body |-> <<>>, expires |-> exp, src |-> EmptyFrame,
     at |-> exp - CACHE_EXPIRE]

\* what the backend holds under the key at time now
Stored(c, now) == IF c.kind # "none" /\ now < c.expires THEN c ELSE NoEntry

\* cache_get that answers from the entry although the backend raises
cache_get_IgnoreFailure(client, up, c, now) ==
    IF client THEN Stored(c, now) ELSE NoEntry

\* app.py:93-99: the value, or None when there is no client, no live entry,
\* or the backend raises
cache_get(client, up, c, now) ==
    IF client /\ up THEN Stored(c, now) ELSE NoEntry

\* app.py:101-106: the entry after the call
cache_set(client, up, c, now, df) ==
    IF client /\ up
    THEN [kind |-> "json", body |-> to_json(df), expires |-> now + CACHE_EXPIRE,
          src |-> df, at |-> now]
    ELSE c

\* "if cached:"   (app.py:116)
Truthy(v) == v.kind \in {"json", "garbage"}

----------------------------------------------------------------------------
(* load_all_sheets   (app.py:109-185) *)

NoAttempts == [i \in 1..Len(sheet_names) |-> <<>>]

NoneResolved == [i \in 1..Len(sheet_names) |-> FALSE]

NoCounts == [i \in 1..Len(sheet_names) |-> 0]

\* path: "hit" returned at app.py:119, "noengine" at 125, "raised" when
\* engine.connect() raises at 153, "built" returned at 185.  got is the kind
\* of value cache_get returned, stored the table that value was written from.
LoadResult(path, df, b, connects, writes, c, cached) ==
    [path |-> path, df |-> df, attempts |-> b.attempts, resolved |-> b.resolved,
     counts |-> b.counts, cacheReads |-> 1, cacheWrites |-> writes,
     connects |-> connects, cache |-> c, got |-> cached.kind,
     stored |-> cached.src]

NothingBuilt ==
    [df |-> EmptyFrame, attempts |-> NoAttempts, resolved |-> NoneResolved,
     counts |-> NoCounts]

\* load_all_sheets that writes the table it got from the cache back to it
load_all_sheets_RefreshOnHit(cls) ==
    LET cached == cache_get(redis_client, redis_up, cache, clock)
    IN  IF Truthy(cached) /\ cached.kind = "json"
        THEN LoadResult("hit", read_json(cached.body), NothingBuilt, 0, 1,
                        cache_set(redis_client, redis_up, cache, clock,
                                  read_json(cached.body)),
                        cached)
        ELSE IF ~engine
        THEN LoadResult("noengine", EmptyFrame, NothingBuilt, 0, 0, cache, cached)
        ELSE IF ~db_up
        THEN LoadResult("raised", EmptyFrame, NothingBuilt, 1, 0, cache, cached)
        ELSE LET b == BuildFromStore(tables, cls)
             IN  LoadResult("built", b.df, b, 1, 1,
                            cache_set(redis_client, redis_up, cache, clock, b.df),
                            cached)

load_all_sheets(cls) ==
    LET cached == cache_get(redis_client, redis_up, cache, clock)
    IN  IF Truthy(cached) /\ cached.kind = "json"
        THEN LoadResult("hit", read_json(cached.body), NothingBuilt, 0, 0, cache,
                        cached)
        ELSE IF ~engine
        THEN LoadResult("noengine", EmptyFrame, NothingBuilt, 0, 0, cache, cached)
        ELSE IF ~db_up
        THEN LoadResult("raised", EmptyFrame, NothingBuilt, 1, 0, cache, cached)
        ELSE LET b == BuildFromStore(tables, cls)
             IN  LoadResult("built", b.df, b, 1, 1,
                            cache_set(redis_client, redis_up, cache, clock, b.df),
                            cached)

\* script.py:42-52: one read per sheet, of the table named s.lower(); a read
\* that raises (the table is missing, the store is down) skips the sheet
script_load_all_sheets ==
    LET res == [i \in 1..Len(sheet_names) |->
                  LET name == Lower(sheet_names[i])
                  IN  IF db_up /\ name \in DOMAIN tables
                      THEN [found |-> TRUE, rows |-> tables[name],
                            tried |-> << Attempt(Query(TRUE, name), TRUE) >>]
                      ELSE [found |-> FALSE, rows |-> <<>>,
                            tried |-> << Attempt(Query(TRUE, name), FALSE) >>]]
    IN  [path |-> "built", df |-> Concat(FoundFrames(res, 1)),
         attempts |-> [i \in 1..Len(res) |-> res[i].tried],
         resolved |-> [i \in 1..Len(res) |-> res[i].found],
         counts |-> [i \in 1..Len(res) |-> Len(res[i].rows)],
         cacheReads |-> 0, cacheWrites |-> 0, connects |-> Len(sheet_names),
         cache |-> cache, got |-> "none", stored |-> EmptyFrame]

----------------------------------------------------------------------------
(* Rate limiting   (app.py:188-201, utils/rate_limit.py:5-18) *)

\* seconds per window   (app.py:193)
WINDOW == 60

\* the size above which rate_store is cleared   (app.py:199)
MAX_KEYS == 10000

EmptyStore == [k \in {} |-> 0]

\* an address outside the tracked ones; every request from it comes from an
\* address that has no key in rate_store yet
OtherIp == "other"

RateKey(ip, now) == <<ip, now \div WINDOW>>

CountOf(store, key) == IF key \in DOMAIN store THEN store[key] ELSE 0

\* check_rate_limit that counts the call before it compares
check_rate_limit_CountRejected(store, others, ip, now) ==
    LET key   == RateKey(ip, now)
        count == IF ip = OtherIp THEN 0 ELSE CountOf(store, key)
        store1 == IF ip = OtherIp THEN store
                  ELSE [k \in DOMAIN store \cup {key} |->
                            IF k = key THEN count + 1 ELSE store[k]]
        others1 == IF ip = OtherIp THEN others + 1 ELSE others
    IN  IF count >= RATE_LIMIT
        THEN [ok |-> FALSE, store |-> store1, others |-> others1]
        ELSE IF Cardinality(DOMAIN store1) + others1 > MAX_KEYS
        THEN [ok |-> TRUE, store |-> EmptyStore, others |-> 0]
        ELSE [ok |-> TRUE, store |-> store1, others |-> others1]

\* app.py:191-201: the result, and rate_store after the call
check_rate_limit(store, others, ip, now) ==
    LET key   == RateKey(ip, now)
        count == IF ip = OtherIp THEN 0 ELSE CountOf(store, key)
        store1 == IF ip = OtherIp THEN store
                  ELSE [k \in DOMAIN store \cup {key} |->
                            IF k = key THEN count + 1 ELSE store[k]]
        others1 == IF ip = OtherIp THEN others + 1 ELSE others
    IN  IF count >= RATE_LIMIT
        THEN [ok |-> FALSE, store |-> store, others |-> others]
        ELSE IF Cardinality(DOMAIN store1) + others1 > MAX_KEYS
        THEN [ok |-> TRUE, store |-> EmptyStore, others |-> 0]
        ELSE [ok |-> TRUE, store |-> store1, others |-> others1]

----------------------------------------------------------------------------
(* What a call did and returned *)

NoLoad ==
    [path |-> "none", df |-> EmptyFrame, attempts |-> NoAttempts,
     resolved |-> NoneResolved, counts |-> NoCounts, cacheReads |-> 0,
     cacheWrites |-> 0, connects |-> 0, cache |-> cache, got |-> "none",
     stored |-> EmptyFrame]

\* status 0: the call is not an HTTP request.  rows and sheets are the two
\* counts written into the answer, -1 when the answer has none.  charts counts
\* the renderings attempted, chart tells whether the response carries an image.
\* redisOk, dbOk and genaiOk are the services as the call found them.
\* key is the API key the request presented.  For /upload_csv, fetches counts
\* the downloads of the CSV, table is the table named and written the rows
\* appended to it, -1 when nothing was written.
Outcome(op, ip, body, nth, status, answer, rows, sheets, L, extraConnects, charts, chart, genaiCalls) ==
    [op |-> op, ip |-> ip, body |-> body, nth |-> nth, status |-> status,
     answer |-> answer, rows |-> rows, sheets |-> sheets,
     path |-> L.path, df |-> L.df, attempts |-> L.attempts,
     resolved |-> L.resolved, counts |-> L.counts,
     cacheReads |-> L.cacheReads, cacheWrites |-> L.cacheWrites,
     connects |-> L.connects + extraConnects, charts |-> charts,
     chart |-> chart, genaiCalls |-> genaiCalls, got |-> L.got,
     stored |-> L.stored, redisOk |-> redis_client /\ redis_up, dbOk |-> db_up,
     genaiOk |-> genai_up, key |-> "", fetches |-> 0, table |-> EmptyStr,
     written |-> -1]

Idle == Outcome("none", "", "", 0, 0, "", -1, -1, NoLoad, 0, 0, FALSE, 0)

\* df['Source_Sheet'].value_counts(): the distinct tags   (app.py:458, 462)
SheetsIn(df) == { df[i].Source_Sheet : i \in 1..Len(df) }

----------------------------------------------------------------------------
(* POST /ask   (app.py:382-470) *)

\* app.py:64-68: the decorator refuses the request
Unauthorized(key) == ADMIN_API_KEY # "" /\ (key = "" \/ key # ADMIN_API_KEY)

\* request bodies: "nojson" no JSON body, "nonobject" JSON that is not an
\* object, "missing" an object without "question", "empty" question "",
\* "text" a non-empty question
Bodies == {"nojson", "nonobject", "missing", "empty", "text"}

\* request.json.get("question", "") raises   (app.py:390)
BodyRaises(body) == body \in {"nojson", "nonobject"}

\* "if not q"   (app.py:391)
NoQuestion(body) == body \in {"missing", "empty"}

\* calls of check_rate_limit one key may see beyond RATE_LIMIT
MaxExtra == 1

\* Answer without the except branch: a failed call ends the request
Answer_NoFallback(ip, body, nth, L, chart) ==
    IF GENAI_API_KEY
    THEN IF genai_up
         THEN Outcome("ask", ip, body, nth, 200, "genai", -1, -1, L, 0, 1, chart, 1)
         ELSE Outcome("ask", ip, body, nth, 500, "server_error", -1, -1, L, 0, 1,
                      chart, 1)
    ELSE Outcome("ask", ip, body, nth, 200, "summary_key_unset",
                 Len(L.df), Cardinality(SheetsIn(L.df)), L, 0, 1, chart, 0)

\* app.py:450-464: the answer; the service is called once when a key is set
Answer(ip, body, nth, L, chart) ==
    LET rows == Len(L.df)
        sheets == Cardinality(SheetsIn(L.df))
    IN  IF GENAI_API_KEY
        THEN IF genai_up
             THEN Outcome("ask", ip, body, nth, 200, "genai", -1, -1, L, 0, 1, chart, 1)
             ELSE Outcome("ask", ip, body, nth, 200, "summary_call_failed",
                          rows, sheets, L, 0, 1, chart, 1)
        ELSE Outcome("ask", ip, body, nth, 200, "summary_key_unset",
                     rows, sheets, L, 0, 1, chart, 0)

\* "DB connected: %s" % bool(engine): the flag of the no-data answer   (app.py:406)
db_connected == engine

\* Handle with the table loaded before the question is looked at
Handle_LoadFirst(ip, body, nth, chartOk, L) ==
    IF BodyRaises(body)
    THEN Outcome("ask", ip, body, nth, 500, "server_error", -1, -1, NoLoad, 0, 0, FALSE, 0)
    ELSE IF L.path = "raised"
    THEN Outcome("ask", ip, body, nth, 500, "server_error", -1, -1, L, 0,
                 0, FALSE, 0)
    ELSE IF NoQuestion(body)
    THEN Outcome("ask", ip, body, nth, 200, "prompt", -1, -1, L, 0, 0, FALSE, 0)
    ELSE IF L.df = EmptyFrame
    THEN Outcome("ask", ip, body, nth, 200, "no_data", -1, -1, L,
                 IF engine THEN 1 ELSE 0, 0, FALSE, 0)
    ELSE Answer(ip, body, nth, L, chartOk)

\* app.py:389-470: the handler once the rate limit let the request in; L is
\* what load_all_sheets() does and returns when the handler calls it
Handle(ip, body, nth, chartOk, L) ==
    IF BodyRaises(body)
    THEN Outcome("ask", ip, body, nth, 500, "server_error", -1, -1, NoLoad, 0, 0, FALSE, 0)
    ELSE IF NoQuestion(body)
    THEN Outcome("ask", ip, body, nth, 200, "prompt", -1, -1, NoLoad, 0, 0, FALSE, 0)
    ELSE IF L.path = "raised"
    THEN Outcome("ask", ip, body, nth, 500, "server_error", -1, -1, L, 0,
                 0, FALSE, 0)
    ELSE IF L.df = EmptyFrame
    THEN Outcome("ask", ip, body, nth, 200, "no_data", -1, -1, L,
                 IF engine THEN 1 ELSE 0, 0, FALSE, 0)
    ELSE Answer(ip, body, nth, L, chartOk)

\* Ask with the rate limit counted before the key is looked at
Ask_LimitFirst(ip, key, body, chartOk) ==
    /\ LET rkey == RateKey(ip, clock)
           nth == IF ip = OtherIp THEN 1 ELSE CountOf(reached, rkey) + 1
           rl == check_rate_limit(rate_store, otherKeys, ip, clock)
           L == load_all_sheets(AppCands)
       IN  /\ nth <= RATE_LIMIT + MaxExtra
           /\ rate_store' = rl.store
           /\ otherKeys' = rl.others
           /\ reached' = IF ip = OtherIp THEN reached
                         ELSE [k \in DOMAIN reached \cup {rkey} |->
                                  IF k = rkey THEN nth ELSE reached[k]]
           /\ IF ~rl.ok
              THEN /\ req' = [Outcome("ask", ip, body, nth, 429, "rate_limited",
                                      -1, -1, NoLoad, 0, 0, FALSE, 0)
                                EXCEPT !.key = key]
                   /\ UNCHANGED cache
              ELSE IF Unauthorized(key)
              THEN /\ req' = [Outcome("ask", ip, body, 0, 401, "unauthorized", -1,
                                      -1, NoLoad, 0, 0, FALSE, 0)
                                EXCEPT !.key = key]
                   /\ UNCHANGED cache
              ELSE /\ req' = [Handle(ip, body, nth, chartOk, L) EXCEPT !.key = key]
                   /\ cache' = IF BodyRaises(body) \/ NoQuestion(body)
                               THEN cache
                               ELSE L.cache
    /\ UNCHANGED <<cfgVars, envVars, clock, tables, candVars>>

\* chartOk: whether the rendering at app.py:412-427 succeeds; when it raises
\* the response carries no image (app.py:428-430)
Ask(ip, key, body, chartOk) ==
    /\ IF Unauthorized(key)
       THEN /\ req' = [Outcome("ask", ip, body, 0, 401, "unauthorized", -1, -1,
                               NoLoad, 0, 0, FALSE, 0) EXCEPT !.key = key]
            /\ UNCHANGED <<cache, rateVars>>
       ELSE LET rkey == RateKey(ip, clock)
                nth == IF ip = OtherIp THEN 1 ELSE CountOf(reached, rkey) + 1
                rl == check_rate_limit(rate_store, otherKeys, ip, clock)
                L == load_all_sheets(AppCands)
            IN  /\ nth <= RATE_LIMIT + MaxExtra
                /\ rate_store' = rl.store
                /\ otherKeys' = rl.others
                /\ reached' = IF ip = OtherIp THEN reached
                              ELSE [k \in DOMAIN reached \cup {rkey} |->
                                       IF k = rkey THEN nth ELSE reached[k]]
                /\ IF ~rl.ok
                   THEN /\ req' = [Outcome("ask", ip, body, nth, 429, "rate_limited",
                                           -1, -1, NoLoad, 0, 0, FALSE, 0)
                                     EXCEPT !.key = key]
                        /\ UNCHANGED cache
                   ELSE /\ req' = [Handle(ip, body, nth, chartOk, L)
                                     EXCEPT !.key = key]
                        /\ cache' = IF BodyRaises(body) \/ NoQuestion(body)
                                    THEN cache
                                    ELSE L.cache
    /\ UNCHANGED <<cfgVars, envVars, clock, tables, candVars>>

----------------------------------------------------------------------------
(* POST /upload_csv   (app.py:332-377) *)

\* request bodies: "nojson" nothing that parses as JSON, "nonobject" JSON that
\* is not an object, "incomplete" an object without csv_url or table_name,
\* "full" an object with both
Payloads == {"nojson", "nonobject", "incomplete", "full"}

\* df.to_sql(table_name, engine, if_exists="append"): the store after the
\* rows are appended; a table that does not exist is created   (app.py:369)
to_sql(tabs, name, rows) ==
    [n \in DOMAIN tabs \cup {name} |->
        IF n = name
        THEN (IF name \in DOMAIN tabs THEN tabs[name] ELSE <<>>) \o rows
        ELSE tabs[n]]

UploadOutcome(key, payload, status, answer, connects, fetches, name, written) ==
    [Outcome("upload", "", payload, 0, status, answer, -1, -1, NoLoad, connects,
             0, FALSE, 0)
        EXCEPT !.key = key, !.fetches = fetches, !.table = name,
               !.written = written]

\* app.py:332-377: the response and the store after the request.  csvOk:
\* pd.read_csv(csv_url) returns rows; fits: the store takes the rows (their
\* columns match the table's).  The write is one transaction.
upload_csv(key, payload, csvOk, name, rows, fits) ==
    IF Unauthorized(key)
    THEN [out |-> UploadOutcome(key, payload, 401, "unauthorized", 0, 0, EmptyStr, -1),
          tables |-> tables]
    ELSE IF payload \in {"nojson", "nonobject"}
    THEN [out |-> UploadOutcome(key, payload, 500, "server_error", 0, 0, EmptyStr, -1),
          tables |-> tables]
    ELSE IF payload = "incomplete"
    THEN [out |-> UploadOutcome(key, payload, 400, "fields_required", 0, 0, EmptyStr, -1),
          tables |-> tables]
    ELSE IF ~csvOk
    THEN [out |-> UploadOutcome(key, payload, 400, "csv_failed", 0, 1, name, -1),
          tables |-> tables]
    ELSE IF ~(engine /\ db_up /\ fits)
    THEN [out |-> UploadOutcome(key, payload, 500, "write_failed",
                                IF engine THEN 1 ELSE 0, 1, name, -1),
          tables |-> tables]
    ELSE [out |-> UploadOutcome(key, payload, 200, "ok", 1, 1, name, Len(rows)),
          tables |-> to_sql(tables, name, rows)]

\* rows a table may hold
MaxStoreRows == 2

UploadCsv(key, payload, csvOk, name, rows, fits) ==
    LET u == upload_csv(key, payload, csvOk, name, rows, fits)
    IN  /\ \A n \in DOMAIN u.tables : Len(u.tables[n]) <= MaxStoreRows
        /\ req' = u.out
        /\ tables' = u.tables
        /\ UNCHANGED <<cfgVars, envVars, clock, cache, rateVars, candVars>>

----------------------------------------------------------------------------
(* The loaders called on their own *)

LoadOutcome(op, L) == Outcome(op, "", "", 0, 0, "", -1, -1, L, 0, 0, FALSE, 0)

\* app.py:109-185
LoadAllSheets ==
    /\ LET L == load_all_sheets(AppCands)
       IN  /\ req' = LoadOutcome("load", L)
           /\ cache' = L.cache
    /\ UNCHANGED <<cfgVars, envVars, clock, tables, rateVars, candVars>>

\* utils/sheet_loader.py:24-75
SheetLoaderLoad ==
    /\ LET L == load_all_sheets(LoaderCands)
       IN  /\ req' = LoadOutcome("load_sl", L)
           /\ cache' = L.cache
    /\ UNCHANGED <<cfgVars, envVars, clock, tables, rateVars, candVars>>

\* script.py:42-52
ScriptLoad ==
    /\ req' = LoadOutcome("load_script", script_load_all_sheets)
    /\ UNCHANGED <<cfgVars, envVars, clock, tables, cache, rateVars, candVars>>

\* app.py:156-165 and utils/sheet_loader.py:55-61 applied to arg
GenCandidates ==
    /\ req.op = "none"
    /\ cands' = cand_list(arg)
    /\ cands_sl' = cand_list_sl(arg)
    /\ req' = [Idle EXCEPT !.op = "cand"]
    /\ UNCHANGED <<cfgVars, envVars, clock, tables, cache, rateVars, arg>>

----------------------------------------------------------------------------
(* The environment *)

\* Time passes.
Tick(step, maxClock) ==
    /\ clock + step <= maxClock
    /\ clock' = clock + step
    /\ UNCHANGED <<cfgVars, envVars, tables, cache, rateVars, req, candVars>>

\* The store goes down or comes back.
FlipStore ==
    /\ db_up' = ~db_up
    /\ UNCHANGED <<cfgVars, redis_up, genai_up, clock, tables, cache, rateVars,
                   req, candVars>>

\* The cache backend goes down or comes back.
FlipRedis ==
    /\ redis_up' = ~redis_up
    /\ UNCHANGED <<cfgVars, db_up, genai_up, clock, tables, cache, rateVars,
                   req, candVars>>

\* The text-generation service goes down or comes back.
FlipGenai ==
    /\ genai_up' = ~genai_up
    /\ UNCHANGED <<cfgVars, db_up, redis_up, clock, tables, cache, rateVars,
                   req, candVars>>

\* Another writer leaves text under the key that is not a serialized table.
ForeignWrite ==
    /\ redis_client /\ redis_up
    /\ cache.kind # "garbage"
    /\ cache' = Garbage(clock + CACHE_EXPIRE)
    /\ UNCHANGED <<cfgVars, envVars, clock, tables, rateVars, req, candVars>>

----------------------------------------------------------------------------
(* Stores *)

EmptyTables == [k \in {} |-> <<>>]

\* tables of at most r rows with cells from vals
Contents(r, vals) == UNION { [1..n -> vals] : n \in 0..r }

\* stores of at most k tables, named from names
Stores(names, k, r, vals) ==
    UNION { [S -> Contents(r, vals)] :
              S \in { X \in SUBSET names : Cardinality(X) <= k } }

\* every name some query of the loader can ask for
PhysNames ==
    UNION { Range(cand_list(sheet_names[i])) \cup
            { Lower(c) : c \in Range(cand_list(sheet_names[i])) } :
            i \in 1..Len(sheet_names) }

MaxTables == 2

MaxRows == 2

Seven == IntCell(7)

\* an integer, text, text that reads as a number, a float with more than
\* DOUBLE_PRECISION decimals (1.5e-10), and a timestamp
CellValues == { Seven, StrCell("x"), StrCell("7"), FloatCell(15, 11), DateCell(1000) }

----------------------------------------------------------------------------
(* Specifications.  Each explores one part of the program's state; the      *)
(* actions are the same definitions throughout.                             *)

Defaults ==
    /\ ADMIN_API_KEY = ""
    /\ GENAI_API_KEY = FALSE
    /\ redis_client = FALSE
    /\ engine = TRUE
    /\ clock = 0
    /\ db_up = TRUE
    /\ redis_up = TRUE
    /\ genai_up = TRUE
    /\ cache = NoEntry
    /\ rate_store = EmptyStore
    /\ reached = EmptyStore
    /\ req = Idle
    /\ cands = <<>>
    /\ cands_sl = <<>>

\* RATE_LIMIT's default   (app.py:188)
DEFAULT_RATE_LIMIT == 60

(* Candidate generation over every name of Names. *)
InitCand ==
    /\ Defaults
    /\ autorollback = TRUE
    /\ RATE_LIMIT = DEFAULT_RATE_LIMIT
    /\ otherKeys = 0
    /\ tables = EmptyTables
    /\ arg \in Names

NextCand == GenCandidates

SpecCand == InitCand /\ [][NextCand]_vars

(* The rate limiter: one tracked address and any number of others, with     *)
(* rate_store empty or within NearFull keys of MAX_KEYS at the start.       *)
MaxRateLimit == 2

NearFull == 1

MaxTicks == 1

IPs == {"a"}

InitRate ==
    /\ Defaults
    /\ autorollback = TRUE
    /\ RATE_LIMIT \in 0..MaxRateLimit
    /\ otherKeys \in {0} \cup { MAX_KEYS - d : d \in 0..NearFull }
    /\ otherKeys > 0 => RATE_LIMIT > 0
    /\ tables = EmptyTables
    /\ arg = <<"A">>

\* other addresses are followed while they hold at most NearFull keys, and
\* again from NearFull keys below MAX_KEYS
OthersFollowed == otherKeys < NearFull \/ otherKeys >= MAX_KEYS - NearFull

NextRate ==
    \/ \E ip \in IPs \cup {OtherIp} :
           /\ ip = OtherIp => OthersFollowed
           /\ Ask(ip, "", "empty", TRUE)
    \/ Tick(WINDOW, MaxTicks * WINDOW)

SpecRate == InitRate /\ [][NextRate]_vars

(* The loaders over every store of at most MaxTables tables, without a      *)
(* cache.                                                                   *)
InitLoad ==
    /\ Defaults
    /\ autorollback \in BOOLEAN
    /\ RATE_LIMIT = DEFAULT_RATE_LIMIT
    /\ otherKeys = 0
    /\ tables \in Stores(PhysNames, MaxTables, MaxRows, {Seven})
    /\ arg = <<"A">>

NextLoad ==
    \/ LoadAllSheets
    \/ SheetLoaderLoad
    \/ ScriptLoad
    \/ FlipStore

SpecLoad == InitLoad /\ [][NextLoad]_vars

(* The cache in front of the loader: one table under the first sheet's      *)
(* name, holding every sequence of at most CacheRows cells of CellValues,   *)
(* or no table at all.                                                      *)
CacheRows == 2

MaxCacheTicks == 3

\* half the expiry per tick
CacheTick == CACHE_EXPIRE \div 2

InitCache ==
    /\ ADMIN_API_KEY = ""
    /\ GENAI_API_KEY = FALSE
    /\ redis_client \in BOOLEAN
    /\ engine \in BOOLEAN
    /\ autorollback = TRUE
    /\ RATE_LIMIT = DEFAULT_RATE_LIMIT
    /\ clock = 0
    /\ db_up = TRUE
    /\ redis_up = TRUE
    /\ genai_up = TRUE
    /\ tables \in {EmptyTables} \cup [{sheet_names[1]} -> Contents(CacheRows, CellValues)]
    /\ cache = NoEntry
    /\ rate_store = EmptyStore
    /\ otherKeys = 0
    /\ reached = EmptyStore
    /\ req = Idle
    /\ arg = <<"A">>
    /\ cands = <<>>
    /\ cands_sl = <<>>

NextCache ==
    \/ LoadAllSheets
    \/ Tick(CacheTick, MaxCacheTicks * CacheTick)
    \/ FlipRedis
    \/ FlipStore
    \/ ForeignWrite

SpecCache == InitCache /\ [][NextCache]_vars

(* POST /ask from one address, with and without an admin key, a           *)
(* text-generation key and a cache client, over stores of at most two       *)
(* tables, with the store and the text-generation service up or down.       *)
AskRows == 1

AskStores ==
    Stores({ sheet_names[1], Lower(sheet_names[2]) }, MaxTables, AskRows, {Seven})

InitAsk ==
    /\ ADMIN_API_KEY \in {"", "k"}
    /\ GENAI_API_KEY \in BOOLEAN
    /\ redis_client \in BOOLEAN
    /\ engine = TRUE
    /\ autorollback = TRUE
    /\ RATE_LIMIT = MaxRateLimit
    /\ clock = 0
    /\ db_up \in BOOLEAN
    /\ redis_up = TRUE
    /\ genai_up \in BOOLEAN
    /\ tables \in AskStores
    /\ cache = NoEntry
    /\ rate_store = EmptyStore
    /\ otherKeys = 0
    /\ reached = EmptyStore
    /\ req = Idle
    /\ arg = <<"A">>
    /\ cands = <<>>
    /\ cands_sl = <<>>

NextAsk ==
    \E key \in {"", "k", "x"}, body \in Bodies :
        \E chartOk \in IF body = "text" THEN BOOLEAN ELSE {FALSE} :
            Ask("a", key, body, chartOk)

SpecAsk == InitAsk /\ [][NextAsk]_vars

(* POST /upload_csv and POST /ask against one table and a working cache,    *)
(* with and without an admin key, the clock running past the expiry.        *)
MaxCsvRows == 1

MaxUploadTicks == 2

\* /ask requests followed per window
MaxAsks == 1

UploadKeys == {"", "k"}

InitUpload ==
    /\ ADMIN_API_KEY \in {"", "k"}
    /\ GENAI_API_KEY = FALSE
    /\ redis_client = TRUE
    /\ engine = TRUE
    /\ autorollback = TRUE
    /\ RATE_LIMIT = DEFAULT_RATE_LIMIT
    /\ clock = 0
    /\ db_up = TRUE
    /\ redis_up = TRUE
    /\ genai_up = TRUE
    /\ tables \in {EmptyTables} \cup [{sheet_names[1]} -> Contents(MaxCsvRows, {Seven})]
    /\ cache = NoEntry
    /\ rate_store = EmptyStore
    /\ otherKeys = 0
    /\ reached = EmptyStore
    /\ req = Idle
    /\ arg = <<"A">>
    /\ cands = <<>>
    /\ cands_sl = <<>>

NextUpload ==
    \/ \E key \in UploadKeys, payload \in Payloads :
           \E csvOk \in IF payload = "full" THEN BOOLEAN ELSE {FALSE} :
               \E rows \in IF csvOk THEN Contents(MaxCsvRows, {Seven}) ELSE {<<>>} :
                   \E fits \in IF csvOk THEN BOOLEAN ELSE {FALSE} :
                       UploadCsv(key, payload, csvOk, sheet_names[1], rows, fits)
    \/ \E key \in UploadKeys :
           /\ CountOf(reached, RateKey("a", clock)) < MaxAsks
           /\ Ask("a", key, "text", TRUE)
    \/ Tick(CacheTick, MaxUploadTicks * CacheTick)

SpecUpload == InitUpload /\ [][NextUpload]_vars

----------------------------------------------------------------------------
(* Properties *)

RECURSIVE SumSeq(_)
SumSeq(l) == IF l = <<>> THEN 0 ELSE Head(l) + SumSeq(Tail(l))

Last(l) == l[Len(l)]

\* the queries of one sheet in the documented order: candidate by candidate,
\* and for each the three forms
RECURSIVE AllQueries(_)
AllQueries(cl) ==
    IF cl = <<>> THEN <<>> ELSE try_variants(Head(cl)) \o AllQueries(Tail(cl))

CandidatesOf(op, s) == IF op = "load_sl" THEN cand_list_sl(s) ELSE cand_list(s)

Rebuilt == req.op \in {"load", "load_sl"} /\ req.path = "built"

(* C1: with rate limit N, the (N+1)-th /ask request that reaches            *)
(* check_rate_limit from one address within one window is answered 429.     *)
C1_NextRequestRejected ==
    (req.op = "ask" /\ req.status # 401 /\ req.nth = RATE_LIMIT + 1)
        => req.status = 429

(* C2: for every sheet of a rebuild, the reads attempted are a prefix of    *)
(* the sheet's queries in the documented order (candidates in list order,   *)
(* the three forms in order within each); every attempt before the last     *)
(* raised; the sheet resolved exactly when the last attempt did not raise,  *)
(* whatever the number of rows it read; and a sheet that did not resolve    *)
(* attempted every query.                                                   *)
C2_AttemptOrder ==
    Rebuilt =>
        \A i \in 1..Len(sheet_names) :
            LET full == AllQueries(CandidatesOf(req.op, sheet_names[i]))
                a == req.attempts[i]
                n == Len(a)
            IN  /\ n >= 1 /\ n <= Len(full)
                /\ \A k \in 1..n : a[k].q = full[k]
                /\ \A k \in 1..(n - 1) : ~a[k].ok
                /\ \A k \in 1..n :
                       /\ a[k].ok => read_sql(tables, a[k].q, FALSE).ok
                       /\ autorollback => (a[k].ok <=> read_sql(tables, a[k].q, FALSE).ok)
                /\ req.resolved[i] <=> a[n].ok
                /\ ~req.resolved[i] => n = Len(full)
                /\ req.resolved[i] =>
                       req.counts[i] = Len(read_sql(tables, a[n].q, FALSE).rows)

\* a rebuild in which a sheet's first read raised, its second read won with
\* zero rows, and a later query of the sheet would have read rows
C2_ZeroRowWinWitness ==
    /\ Rebuilt
    /\ \E i \in 1..Len(sheet_names) :
           LET full == AllQueries(CandidatesOf(req.op, sheet_names[i]))
               a == req.attempts[i]
           IN  /\ Len(a) = 2
               /\ req.resolved[i]
               /\ req.counts[i] = 0
               /\ \E k \in 3..Len(full) :
                      read_sql(tables, full[k], FALSE).rows # <<>>

(* C3: the candidate list of a non-empty name holds exactly the name, the   *)
(* lower-cased name and the two with a trailing "_forecast" (in either      *)
(* case) cut off, one keeping the name's casing and one lower-cased; it     *)
(* starts with the name, the lower-cased name comes before the cut forms,   *)
(* and nothing is listed twice.                                             *)
CutSuffix(s) ==
    IF EndsWith(Lower(s), SUFFIX) THEN SubSeq(s, 1, Len(s) - Len(SUFFIX)) ELSE s

ClaimedCandidates(s) ==
    { s, Lower(s), CutSuffix(s), Lower(CutSuffix(s)) } \ { EmptyStr }

AsClaimed(l, s) ==
    /\ Range(l) = ClaimedCandidates(s)
    /\ Cardinality(Range(l)) = Len(l)
    /\ l[1] = s
    /\ Lower(s) # s => l[2] = Lower(s)

C3_CandidatesAsClaimed ==
    req.op = "cand" => (AsClaimed(cands, arg) /\ AsClaimed(cands_sl, arg))

(* C4: the table a rebuild returns is, sheet by sheet in the configured     *)
(* order, the rows of the one read that resolved the sheet, each tagged     *)
(* with the sheet's logical name; its length is the sum of the resolved     *)
(* reads' row counts; and at most one read per sheet did not raise.         *)
RowsOfSheet(i) ==
    IF req.resolved[i]
    THEN IF req.op = "load_script" THEN tables[Last(req.attempts[i]).q.ident]
         ELSE read_sql(tables, Last(req.attempts[i]).q, FALSE).rows
    ELSE <<>>

BuiltByLoader == req.op \in {"load", "load_sl", "load_script"} /\ req.path = "built"

C4_RowsAndTags ==
    BuiltByLoader =>
        /\ Len(req.df) =
               SumSeq([i \in 1..Len(sheet_names) |->
                          IF req.resolved[i] THEN req.counts[i] ELSE 0])
        /\ req.df = Concat([i \in 1..Len(sheet_names) |->
                              [k \in 1..Len(RowsOfSheet(i)) |->
                                  [val |-> RowsOfSheet(i)[k],
                                   Source_Sheet |-> sheet_names[i]]]])
        /\ \A i \in 1..Len(sheet_names) :
               /\ Cardinality({ k \in 1..Len(req.attempts[i]) :
                                   req.attempts[i][k].ok }) <= 1
               /\ req.resolved[i] => req.counts[i] = Len(RowsOfSheet(i))

\* a rebuild that resolved two sheets, both with rows, one of them under a
\* physical name that differs from its logical name
C4_TwoSheetsWitness ==
    /\ Rebuilt
    /\ \E i, j \in 1..Len(sheet_names) :
           /\ i # j
           /\ req.resolved[i] /\ req.counts[i] > 0
           /\ req.resolved[j] /\ req.counts[j] > 0
           /\ Last(req.attempts[j]).q.ident # sheet_names[j]
    /\ Len(req.df) >= 2

(* C5: a call of load_all_sheets never raises; every sheet that some query  *)
(* of its list can read from the store is resolved, whatever happened to    *)
(* the sheets before it; and when no sheet resolves the result is the empty *)
(* table.                                                                   *)
Readable(op, i) ==
    \E k \in 1..Len(AllQueries(CandidatesOf(op, sheet_names[i]))) :
        read_sql(tables, AllQueries(CandidatesOf(op, sheet_names[i]))[k], FALSE).ok

C5_FailuresIsolated ==
    (req.op \in {"load", "load_sl"} /\ req.path # "hit") =>
        /\ req.path # "raised"
        /\ req.path = "built" =>
               \A i \in 1..Len(sheet_names) : Readable(req.op, i) => req.resolved[i]
        /\ (\A i \in 1..Len(sheet_names) : ~req.resolved[i]) => req.df = EmptyFrame

(* C6: a load served from the cache returns a table equivalent to the one   *)
(* that was serialized into the entry: the same rows in the same order,     *)
(* each with the same tag and the same value (a number equal to the number  *)
(* stored, text equal to the text stored, a timestamp equal to the          *)
(* timestamp stored).                                                       *)
IsNumber(c) == c.t \in {"int", "float"}

SameValue(c, d) ==
    IF IsNumber(c) /\ IsNumber(d) THEN c.n = d.n /\ c.e = d.e ELSE c = d

Equivalent(df1, df2) ==
    /\ Len(df1) = Len(df2)
    /\ \A i \in 1..Len(df1) :
           /\ df1[i].Source_Sheet = df2[i].Source_Sheet
           /\ SameValue(df1[i].val, df2[i].val)

FromLoader == req.op \in {"load", "load_sl"}

C6_CacheRoundTrip ==
    (FromLoader /\ req.path = "hit") => Equivalent(req.df, req.stored)

(* C7: a load that finds no cache client, or a backend that raises, does    *)
(* not return from the cache branch: it raises only when the store refuses  *)
(* the connection, returns the empty table when there is no engine, and     *)
(* otherwise returns the table built from the store; the calls of the cache *)
(* helpers change nothing and raise nothing.                                *)
C7_CacheNotNeeded ==
    (FromLoader /\ ~req.redisOk) =>
        /\ req.got = "none"
        /\ req.path # "hit"
        /\ req.path = "raised" <=> (engine /\ ~req.dbOk)
        /\ req.path = "noengine" <=> ~engine
        /\ req.path = "built" =>
               /\ req.df = BuildFromStore(tables, AppCands).df
               /\ req.cacheWrites = 1

\* a rebuild made while the backend raised although it held a live entry
C7_BackendDownWitness ==
    /\ FromLoader /\ ~req.redisOk
    /\ redis_client /\ ~redis_up
    /\ cache.kind = "json" /\ clock < cache.expires
    /\ req.path = "built"
    /\ req.df # EmptyFrame

(* C8: a load whose cache_get returned text that does not deserialize       *)
(* rebuilds the table from the store, writes it back to the cache and       *)
(* returns it; it does not raise.                                           *)
C8_GarbageIsAMiss ==
    (FromLoader /\ req.got = "garbage") =>
        /\ req.path = "built"
        /\ req.cacheWrites = 1
        /\ req.df = BuildFromStore(tables, AppCands).df

(* C9: a POST /ask whose question is empty reads no cache, opens no store   *)
(* connection, issues no query, renders no chart and calls no               *)
(* text-generation service; unless the API-key check or the rate limit      *)
(* turned it away, it is answered 200 with the prompting message.           *)
Admitted == req.op = "ask" /\ req.status \notin {401, 429}

C9_EmptyQuestionTouchesNothing ==
    (req.op = "ask" /\ req.body = "empty") =>
        /\ req.path = "none"
        /\ req.cacheReads = 0 /\ req.cacheWrites = 0
        /\ req.connects = 0
        /\ \A i \in 1..Len(sheet_names) : req.attempts[i] = <<>>
        /\ req.charts = 0 /\ ~req.chart
        /\ req.genaiCalls = 0
        /\ Admitted => (req.status = 200 /\ req.answer = "prompt")

\* an admitted request with an empty question, made while the store holds
\* rows, is up, and a cache client and a text-generation key are configured
C9_EmptyQuestionWitness ==
    /\ Admitted /\ req.body = "empty"
    /\ req.answer = "prompt"
    /\ redis_client /\ GENAI_API_KEY /\ db_up
    /\ \E n \in DOMAIN tables : tables[n] # <<>>

(* C10: a POST /ask with a question, for which load_all_sheets returned a   *)
(* table with rows while the text-generation key is unset or the call       *)
(* raises, is answered 200 with a summary that states the table's number of *)
(* rows and its number of distinct Source_Sheet tags; the service is called *)
(* once when a key is set and never otherwise.                              *)
GenaiUnavailable == ~GENAI_API_KEY \/ ~req.genaiOk

C10_LocalSummary ==
    (req.op = "ask" /\ req.body = "text" /\ req.path \in {"hit", "built"}
        /\ req.df # EmptyFrame /\ GenaiUnavailable) =>
        /\ req.status = 200
        /\ req.answer \in {"summary_key_unset", "summary_call_failed"}
        /\ req.rows = Len(req.df)
        /\ req.sheets = Cardinality(SheetsIn(req.df))
        /\ req.genaiCalls = IF GENAI_API_KEY THEN 1 ELSE 0

\* a summary of two sheets' rows returned after the one call of the service
\* raised
C10_CallFailedWitness ==
    /\ req.op = "ask" /\ req.body = "text"
    /\ GENAI_API_KEY /\ ~req.genaiOk
    /\ req.answer = "summary_call_failed"
    /\ req.sheets = 2 /\ req.rows >= 2
    /\ req.genaiCalls = 1


\* the store can be reached: an engine exists and the store accepted
\* connections when the request was handled
Reachable == engine /\ req.dbOk

(* C11: an admitted /ask with a non-empty question whose table is empty,    *)
(* the unreachable store included, is answered 200 "no data available"      *)
(* with a flag that is true exactly when the store is reachable; never 500. *)
C11_NoDataNotAnError ==
    (Admitted /\ req.body = "text" /\ req.path # "none" /\ req.df = EmptyFrame)
        => /\ req.status = 200
           /\ req.answer = "no_data"
           /\ db_connected <=> Reachable

\* no JSON body, a body that is not an object, or an object without the
\* question field
Malformed(body) == body \in {"nojson", "nonobject", "missing"}

(* C12: an admitted /ask with a malformed body is answered with a 4xx       *)
(* status, and no other admitted /ask is answered with a status of 400 or   *)
(* above.                                                                   *)
C12_OnlyMalformedFails ==
    Admitted =>
        IF Malformed(req.body) THEN req.status \in 400..499 ELSE req.status < 400

\* the request presented the configured admin key
PresentsAdminKey == ADMIN_API_KEY # "" /\ req.key = ADMIN_API_KEY

(* C13: whether or not an admin key is configured, a POST /upload_csv that  *)
(* does not present the valid admin key never fetches the CSV and never     *)
(* appends to or creates a table.                                           *)
C13_UploadAdminOnly ==
    (req.op = "upload" /\ ~PresentsAdminKey)
        => (req.fetches = 0 /\ req.written = -1 /\ req.connects = 0)

(* C14: with an admin key configured, a POST /ask whose key is missing or  *)
(* differs from it is answered 401 and changes nothing: the rate-limit      *)
(* counters and the cache stay as they were, and the request reads neither  *)
(* the cache nor the store and makes no text-generation call.               *)
C14_UnauthorizedNoEffect ==
    [][(/\ ADMIN_API_KEY # ""
        /\ req'.op = "ask"
        /\ (req'.key = "" \/ req'.key # ADMIN_API_KEY))
          => /\ req'.status = 401
             /\ UNCHANGED <<rate_store, otherKeys, reached, cache>>
             /\ req'.path = "none"
             /\ req'.cacheReads = 0
             /\ req'.connects = 0
             /\ req'.genaiCalls = 0]_vars

\* a wrong key is refused after the same address was let in and counted
C14_WrongKeyWitness ==
    /\ ADMIN_API_KEY # ""
    /\ req.op = "ask" /\ req.status = 401
    /\ req.key # "" /\ req.key # ADMIN_API_KEY
    /\ CountOf(rate_store, RateKey("a", clock)) > 0
    /\ cache.kind = "json"

\* what a rebuild would return from the store as it is now
FreshTable == BuildFromStore(tables, AppCands).df

(* C15: a /ask whose load is served from the cache gets the snapshot as it  *)
(* was serialized, whatever the store holds by now, and the load does       *)
(* nothing else: no query, no connection of its own, no cache write, the    *)
(* entry and its expiry unchanged; the entry served was written less than   *)
(* CACHE_EXPIRE seconds ago.  (On an empty snapshot the one connection is   *)
(* the handler's own look at the table list, app.py:398-404.)               *)
C15_HitOnlyReads ==
    [][(req'.op = "ask" /\ clock' = clock /\ req'.path = "hit")
          => /\ cache.kind = "json"
             /\ req'.df = read_json(to_json(cache.src))
             /\ req'.attempts = NoAttempts
             /\ req'.connects = (IF req'.df = EmptyFrame THEN 1 ELSE 0)
             /\ req'.cacheReads = 1
             /\ req'.cacheWrites = 0
             /\ cache' = cache
             /\ tables' = tables
             /\ clock < cache.at + CACHE_EXPIRE]_vars

\* a hit some time after the snapshot was written, while the store already
\* holds rows the snapshot does not
C15_StaleHitWitness ==
    /\ req.op = "ask" /\ req.path = "hit"
    /\ clock > cache.at
    /\ Len(FreshTable) > Len(req.df)
    /\ req.df # EmptyFrame

\* the keys rate_store holds: the tracked ones and those of other addresses
KeysHeld == Cardinality(DOMAIN rate_store) + otherKeys

\* every counter is between 1 and RATE_LIMIT (the counters of the other
\* addresses are all 1), and at most MAX_KEYS keys are held
RateStoreInv ==
    /\ \A k \in DOMAIN rate_store :
           rate_store[k] >= 1 /\ rate_store[k] <= RATE_LIMIT
    /\ otherKeys > 0 => RATE_LIMIT >= 1
    /\ KeysHeld <= MAX_KEYS

\* rate_store after the caller's counter of the current window went up by one
Incremented ==
    IF req'.ip = OtherIp
    THEN rate_store' = rate_store /\ otherKeys' = otherKeys + 1
    ELSE LET key == RateKey(req'.ip, clock)
         IN  /\ otherKeys' = otherKeys
             /\ DOMAIN rate_store' = DOMAIN rate_store \cup {key}
             /\ \A k \in DOMAIN rate_store' :
                    rate_store'[k] = IF k = key THEN CountOf(rate_store, key) + 1
                                     ELSE rate_store[k]

\* the overflow clear: the call made the store larger than MAX_KEYS and left
\* it empty
Cleared ==
    /\ KeysHeld = MAX_KEYS
    /\ req'.ip = OtherIp \/ RateKey(req'.ip, clock) \notin DOMAIN rate_store
    /\ rate_store' = EmptyStore /\ otherKeys' = 0

(* C16: over every sequence of check_rate_limit calls, every counter held   *)
(* is between 1 and RATE_LIMIT and at most 10000 keys are held; a call that *)
(* returns False leaves rate_store unchanged; a call that returns True adds *)
(* one to the caller's counter of the current window and changes nothing    *)
(* else, unless it overflows the store, which is then left empty.           *)
C16_RateStoreInvariants ==
    /\ []RateStoreInv
    /\ [][(req'.op = "ask" /\ clock' = clock)
             => IF req'.status = 429
                THEN UNCHANGED <<rate_store, otherKeys>>
                ELSE Incremented \/ Cleared]_vars

\* a tracked address's call overflowed the store and emptied it
C16_ClearWitness ==
    /\ req.op = "ask" /\ req.status = 200 /\ req.ip \in IPs
    /\ rate_store = EmptyStore /\ otherKeys = 0

============================================================================
